---- MODULE Spec2Model ----
(***************************************************************************)
(* Model of volpy/lib/gps_survey.py: construction of a GpsSurvey from a    *)
(* GPX document (GpsSurvey.__init__ and GpsSurvey._read_gpx) and the       *)
(* read-only reports on the resulting table (view_stats, _stats_print,     *)
(* view_path_elevation_bokeh, view_path_elevation_matplotlib).             *)
(*                                                                         *)
(* Texts of the document are tuples of one-character strings, so that the  *)
(* conversions pd.to_numeric and pd.to_datetime are computed and can fail. *)
(* Numbers are integers (fixed point); a reduction over an empty column    *)
(* gives NaN, which is a value of its own.                                 *)
(***************************************************************************)
EXTENDS Integers, Sequences, FiniteSets, TLC

VARIABLES
    profiles,       \* the members of the enumeration GpsDevice
    arg,            \* the arguments of the constructor call
    fs,             \* the file found at survey_path
    pc,             \* position of the constructor call / life of the object
    error,          \* the exception the last call raised to its caller
    name,           \* self.name
    survey_path,    \* self.survey_path
    device,         \* self.device
    data,           \* self.data
    track_points,   \* _read_gpx: the trkpt elements of the parsed document
    points,         \* _read_gpx: the list of converted entries
    idx,            \* _read_gpx: position of the for loop in track_points
    opened,         \* number of times the file at survey_path was opened
    skipped,        \* number of exceptions printed by the loop of _read_gpx
    out             \* what the last report printed or handed to a renderer

vars == <<profiles, arg, fs, pc, error, name, survey_path, device, data,
          track_points, points, idx, opened, skipped, out>>

----------------------------------------------------------------------------
(* Bounds and input sets *)

MaxPoints == 3

GARMIN_MONTANA_680 == "GARMIN_MONTANA_680"

\* The enumeration as the source defines it.
GpsDevice == {GARMIN_MONTANA_680}

\* A member the enumeration does not have today; it stands for any profile
\* added to GpsDevice without a branch in _read_gpx.
OTHER_PROFILE == "OTHER_PROFILE"

\* Values a caller can pass as device that are no members of any enumeration.
NotADevice == {"str:GARMIN_MONTANA_680", "int:0"}

Unset == "unset"

Txt2(a, b) == <<a, b>>
Txt3(a, b, c) == <<a, b, c>>

\* Three track points whose four fields are all present and convertible.
\* Their timestamps are neither ascending nor descending in this order.
Sample1 == [lat |-> Txt2("1", "0"), lon |-> Txt2("2", "0"),
            ele |-> << Txt3("1", "0", "0") >>, time |-> << Txt2("0", "3") >>]
Sample2 == [lat |-> Txt2("1", "0"), lon |-> Txt2("2", "1"),
            ele |-> << Txt3("1", "5", "0") >>, time |-> << Txt2("0", "1") >>]
Sample3 == [lat |-> Txt2("1", "1"), lon |-> Txt2("2", "0"),
            ele |-> << Txt3("1", "2", "0") >>, time |-> << Txt2("0", "2") >>]

\* Sample1 with one field damaged: a text that is no number or no instant,
\* or a nested element (ele, time) that is not there at all.  The attributes
\* lat and lon are required by the GPX schema, ele and time are optional.
BadLat    == [Sample1 EXCEPT !.lat = Txt2("1", "x")]
BadLon    == [Sample1 EXCEPT !.lon = Txt2("x", "0")]
BadEle    == [Sample1 EXCEPT !.ele = << Txt3("1", "x", "0") >>]
BadTime   == [Sample1 EXCEPT !.time = << Txt2("x", "3") >>]
NoEle     == [Sample1 EXCEPT !.ele = << >>]
NoTime    == [Sample1 EXCEPT !.time = << >>]

ValidPoints == {Sample1, Sample2, Sample3}
UnconvertiblePoints == {BadLat, BadLon, BadEle, BadTime}
IncompletePoints == {NoEle, NoTime}
TrackPoints == ValidPoints \cup UnconvertiblePoints \cup IncompletePoints

Documents == UNION {[1..n -> TrackPoints] : n \in 0..MaxPoints}

\* The file at survey_path: not there, not well-formed XML (the records
\* before the syntax error are kept in points), or a well-formed document.
Files == {[status |-> "missing", points |-> << >>]}
         \cup [status : {"malformed", "ok"}, points : Documents]

----------------------------------------------------------------------------
(* Values *)

NaN == [nan |-> TRUE, v |-> 0]
Num(x) == [nan |-> FALSE, v |-> x]
NaNMean == [nan |-> TRUE, num |-> 0, den |-> 1]

NoStats == [range |-> NaN, minimum |-> NaN, maximum |-> NaN]
NoOutput == [op |-> "none", time_to_survey |-> NaN, count |-> 0,
             mean |-> NaNMean, elevation |-> NoStats,
             latitude |-> NoStats, longitude |-> NoStats, series |-> << >>]

NoData == [state |-> Unset, rows |-> << >>]
None == [state |-> "None", rows |-> << >>]

----------------------------------------------------------------------------
(* Conversions *)

DigitVal == ("0" :> 0) @@ ("1" :> 1) @@ ("2" :> 2) @@ ("3" :> 3) @@ ("4" :> 4)
            @@ ("5" :> 5) @@ ("6" :> 6) @@ ("7" :> 7) @@ ("8" :> 8) @@ ("9" :> 9)

IsDigits(text) == \A i \in 1..Len(text) : text[i] \in DOMAIN DigitVal

RECURSIVE ParseInt(_)
ParseInt(text) ==
    IF text = << >> THEN 0
    ELSE 10 * ParseInt(SubSeq(text, 1, Len(text) - 1)) + DigitVal[text[Len(text)]]

\* pd.to_numeric on a non-empty text: the number, or ValueError.
to_numeric(text) ==
    IF IsDigits(text) THEN [ok |-> TRUE, val |-> ParseInt(text)]
    ELSE [ok |-> FALSE, val |-> 0]

\* pd.to_datetime on the text of a time element.  The texts of one document
\* differ in their seconds field only, which is the part kept here.
to_datetime(text) ==
    IF Len(text) = 2 /\ IsDigits(text)
    THEN [ok |-> TRUE, val |-> ParseInt(text)]
    ELSE [ok |-> FALSE, val |-> 0]

----------------------------------------------------------------------------
(* GpsSurvey.__init__ and GpsSurvey._read_gpx *)

IsGpsDeviceUnchecked(d) == TRUE

\* type(device) == GpsDevice
IsGpsDevice(d) == d \in profiles

HasExtractionRuleAlways(d) == TRUE

\* self.device == GpsDevice.GARMIN_MONTANA_680
HasExtractionRule(d) == d = GARMIN_MONTANA_680

parseLenient(file) ==
    IF file.status = "missing"
    THEN [ok |-> FALSE, error |-> "FileNotFoundError", trkpt |-> << >>]
    ELSE [ok |-> TRUE, error |-> "none", trkpt |-> file.points]

\* xml.dom.minidom.parse followed by getElementsByTagName("trkpt"): the whole
\* document is read into a tree before any element is handed out.
parse(file) ==
    CASE file.status = "missing" ->
            [ok |-> FALSE, error |-> "FileNotFoundError", trkpt |-> << >>]
      [] file.status = "malformed" ->
            [ok |-> FALSE, error |-> "ExpatError", trkpt |-> << >>]
      [] OTHER ->
            [ok |-> TRUE, error |-> "none", trkpt |-> file.points]

\* The four reads of one loop iteration.  getElementsByTagName(..)[0] raises
\* IndexError when the point has no such element, and childNodes[0] does when
\* the element has no text.
Extract(point) ==
    IF \/ Len(point.ele) = 0 \/ Len(point.time) = 0
       \/ Len(point.ele[1]) = 0 \/ Len(point.time[1]) = 0
    THEN [ok |-> FALSE, latitude |-> << >>, longitude |-> << >>,
          elevation |-> << >>, timestamp |-> << >>]
    ELSE [ok |-> TRUE, latitude |-> point.lat, longitude |-> point.lon,
          elevation |-> point.ele[1], timestamp |-> point.time[1]]

\* The body of the try block: the entry, or the exception the except clause
\* catches.
Convert(raw) ==
    LET latitude == to_numeric(raw.latitude)
        longitude == to_numeric(raw.longitude)
        elevation == to_numeric(raw.elevation)
        timestamp == to_datetime(raw.timestamp)
    IN  IF latitude.ok /\ longitude.ok /\ elevation.ok /\ timestamp.ok
        THEN [ok |-> TRUE,
              entry |-> <<timestamp.val, latitude.val, longitude.val, elevation.val>>]
        ELSE [ok |-> FALSE, entry |-> << >>]

appendFront(list, entry) == <<entry>> \o list

\* points.append(entry)
append(list, entry) == Append(list, entry)

\* pd.DataFrame.from_records(points, columns=column_names, index="timestamp")
from_records(list) ==
    [state |-> "frame",
     rows |-> [i \in 1..Len(list) |->
                  [timestamp |-> list[i][1], latitude |-> list[i][2],
                   longitude |-> list[i][3], elevation |-> list[i][4]]]]

\* Lines 33-37: the type check, then the three plain attributes.
Construct ==
    /\ pc = "start"
    /\ IF ~IsGpsDevice(arg.device)
       THEN /\ pc' = "raised"
            /\ error' = "TypeError"
            /\ UNCHANGED <<name, survey_path, device>>
       ELSE /\ name' = arg.name
            /\ survey_path' = arg.survey_path
            /\ device' = arg.device
            /\ pc' = "read_gpx"
            /\ UNCHANGED error
    /\ UNCHANGED <<profiles, arg, fs, data, track_points, points, idx,
                   opened, skipped, out>>

\* Lines 81-86, and lines 113 and 38 for a profile without a branch.
ReadGpxParse ==
    /\ pc = "read_gpx"
    /\ IF HasExtractionRule(device)
       THEN LET dom == parse(fs)
            IN  /\ opened' = opened + 1
                /\ IF dom.ok
                   THEN /\ track_points' = dom.trkpt
                        /\ points' = << >>
                        /\ idx' = 1
                        /\ pc' = "loop"
                        /\ UNCHANGED error
                   ELSE /\ pc' = "raised"
                        /\ error' = dom.error
                        /\ UNCHANGED <<track_points, points, idx>>
                /\ UNCHANGED data
       ELSE /\ data' = None
            /\ pc' = "constructed"
            /\ UNCHANGED <<track_points, points, idx, opened, error>>
    /\ UNCHANGED <<profiles, arg, fs, name, survey_path, device, skipped, out>>

\* Lines 88-106: one iteration of the loop.
ReadPoint ==
    /\ pc = "loop"
    /\ idx <= Len(track_points)
    /\ LET raw == Extract(track_points[idx])
           converted == Convert(raw)
       IN  IF ~raw.ok
           THEN /\ pc' = "raised"
                /\ error' = "IndexError"
                /\ UNCHANGED <<points, idx, skipped>>
           ELSE /\ IF converted.ok
                   THEN /\ points' = append(points, converted.entry)
                        /\ UNCHANGED skipped
                   ELSE /\ skipped' = skipped + 1
                        /\ UNCHANGED points
                /\ idx' = idx + 1
                /\ UNCHANGED <<pc, error>>
    /\ UNCHANGED <<profiles, arg, fs, name, survey_path, device, data,
                   track_points, opened, out>>

\* Lines 108-112 and 38: the table is built and bound to self.data.
ReadGpxReturn ==
    /\ pc = "loop"
    /\ idx > Len(track_points)
    /\ data' = from_records(points)
    /\ pc' = "constructed"
    /\ UNCHANGED <<profiles, arg, fs, error, name, survey_path, device,
                   track_points, points, idx, opened, skipped, out>>

----------------------------------------------------------------------------
(* Reductions of pandas over a column or over the index *)

\* self.data[variable], and self.data.index for variable = "timestamp"
Column(d, variable) == [i \in 1..Len(d.rows) |-> d.rows[i][variable]]

RECURSIVE FoldMax(_, _)
FoldMax(s, best) ==
    IF s = << >> THEN best
    ELSE FoldMax(Tail(s), IF Head(s) > best THEN Head(s) ELSE best)

RECURSIVE FoldMin(_, _)
FoldMin(s, best) ==
    IF s = << >> THEN best
    ELSE FoldMin(Tail(s), IF Head(s) < best THEN Head(s) ELSE best)

RECURSIVE FoldSum(_)
FoldSum(s) == IF s = << >> THEN 0 ELSE Head(s) + FoldSum(Tail(s))

\* Series.max / Index.max: NaN on an empty column.
SeriesMax(s) == IF s = << >> THEN NaN ELSE Num(FoldMax(Tail(s), Head(s)))

SeriesMinFirst(s) == IF s = << >> THEN NaN ELSE Num(Head(s))

\* Series.min / Index.min: NaN on an empty column.
SeriesMin(s) == IF s = << >> THEN NaN ELSE Num(FoldMin(Tail(s), Head(s)))

\* Series.mean: the sum over the number of values, kept as a fraction.
SeriesMean(s) ==
    IF s = << >> THEN NaNMean
    ELSE [nan |-> FALSE, num |-> FoldSum(s), den |-> Len(s)]

\* Subtraction of two results; NaN is absorbing.
Minus(a, b) == IF a.nan \/ b.nan THEN NaN ELSE Num(a.v - b.v)

----------------------------------------------------------------------------
(* Reports *)

time_to_survey_endpoints(d) ==
    IF d.rows = << >> THEN NaN
    ELSE Num(d.rows[Len(d.rows)].timestamp - d.rows[1].timestamp)

\* Line 49: self.data.index.max() - self.data.index.min()
time_to_survey(d) ==
    Minus(SeriesMax(Column(d, "timestamp")), SeriesMin(Column(d, "timestamp")))

stats_print_swapped(d, variable) ==
    LET maximum == SeriesMax(Column(d, variable))
        minimum == SeriesMin(Column(d, variable))
    IN  [range |-> Minus(minimum, maximum),
         minimum |-> minimum, maximum |-> maximum]

\* Lines 62-64: what _stats_print puts on its line.
stats_print(d, variable) ==
    LET maximum == SeriesMax(Column(d, variable))
        minimum == SeriesMin(Column(d, variable))
    IN  [range |-> Minus(maximum, minimum),
         minimum |-> minimum, maximum |-> maximum]

\* The (timestamp, elevation) pairs a renderer is handed, in table order.
ElevationSeries(d) ==
    [i \in 1..Len(d.rows) |-> <<d.rows[i].timestamp, d.rows[i].elevation>>]

\* Lines 49-56.  On self.data = None the first line raises AttributeError.
view_stats ==
    /\ pc = "constructed"
    /\ IF data.state = "frame"
       THEN /\ out' = [op |-> "view_stats",
                       time_to_survey |-> time_to_survey(data),
                       count |-> Len(data.rows),
                       mean |-> SeriesMean(Column(data, "elevation")),
                       elevation |-> stats_print(data, "elevation"),
                       latitude |-> stats_print(data, "latitude"),
                       longitude |-> stats_print(data, "longitude"),
                       series |-> << >>]
            /\ error' = "none"
       ELSE /\ out' = [NoOutput EXCEPT !.op = "view_stats"]
            /\ error' = "AttributeError"
    /\ UNCHANGED <<profiles, arg, fs, pc, name, survey_path, device, data,
                   track_points, points, idx, opened, skipped>>

\* Lines 119-133.
view_path_elevation_bokeh ==
    /\ pc = "constructed"
    /\ IF data.state = "frame"
       THEN /\ out' = [NoOutput EXCEPT !.op = "bokeh",
                                       !.series = ElevationSeries(data)]
            /\ error' = "none"
       ELSE /\ out' = [NoOutput EXCEPT !.op = "bokeh"]
            /\ error' = "AttributeError"
    /\ UNCHANGED <<profiles, arg, fs, pc, name, survey_path, device, data,
                   track_points, points, idx, opened, skipped>>

RECURSIVE SortedInsert(_, _)
SortedInsert(row, sorted) ==
    IF sorted = << >> THEN <<row>>
    ELSE IF row.timestamp < Head(sorted).timestamp THEN <<row>> \o sorted
    ELSE <<Head(sorted)>> \o SortedInsert(row, Tail(sorted))

RECURSIVE SortIndex(_)
SortIndex(rows) ==
    IF rows = << >> THEN << >>
    ELSE SortedInsert(Head(rows), SortIndex(Tail(rows)))

view_path_elevation_matplotlib_sorting ==
    /\ pc = "constructed"
    /\ IF data.state = "frame"
       THEN /\ data' = [data EXCEPT !.rows = SortIndex(data.rows)]
            /\ out' = [NoOutput EXCEPT !.op = "matplotlib",
                                       !.series = ElevationSeries(data')]
            /\ error' = "none"
       ELSE /\ out' = [NoOutput EXCEPT !.op = "matplotlib"]
            /\ error' = "TypeError"
            /\ UNCHANGED data
    /\ UNCHANGED <<profiles, arg, fs, pc, name, survey_path, device,
                   track_points, points, idx, opened, skipped>>

\* Lines 136-143.  On self.data = None the subscript raises TypeError.
view_path_elevation_matplotlib ==
    /\ pc = "constructed"
    /\ IF data.state = "frame"
       THEN /\ out' = [NoOutput EXCEPT !.op = "matplotlib",
                                       !.series = ElevationSeries(data)]
            /\ error' = "none"
       ELSE /\ out' = [NoOutput EXCEPT !.op = "matplotlib"]
            /\ error' = "TypeError"
    /\ UNCHANGED <<profiles, arg, fs, pc, name, survey_path, device, data,
                   track_points, points, idx, opened, skipped>>

----------------------------------------------------------------------------
(* Specifications *)

InitWith(members) ==
    /\ profiles = members
    /\ arg \in [name : {"survey"}, survey_path : {"track.gpx"},
                device : members \cup NotADevice]
    /\ fs \in Files
    /\ pc = "start"
    /\ error = "none"
    /\ name = Unset
    /\ survey_path = Unset
    /\ device = Unset
    /\ data = NoData
    /\ track_points = << >>
    /\ points = << >>
    /\ idx = 0
    /\ opened = 0
    /\ skipped = 0
    /\ out = NoOutput

Init == InitWith(GpsDevice)

\* The enumeration with one more member than the source gives it.
InitExt == InitWith(GpsDevice \cup {OTHER_PROFILE})

Next ==
    \/ Construct
    \/ ReadGpxParse
    \/ ReadPoint
    \/ ReadGpxReturn
    \/ view_stats
    \/ view_path_elevation_bokeh
    \/ view_path_elevation_matplotlib

Spec == Init /\ [][Next]_vars

SpecExt == InitExt /\ [][Next]_vars

----------------------------------------------------------------------------
(* What the document says, read off the input sets and not off the parser *)

Terminal == pc \in {"constructed", "raised"}

\* The sample a fully valid track point stands for.
SampleRow(p) ==
    CASE p = Sample1 -> [timestamp |-> 3, latitude |-> 10, longitude |-> 20,
                         elevation |-> 100]
      [] p = Sample2 -> [timestamp |-> 1, latitude |-> 10, longitude |-> 21,
                         elevation |-> 150]
      [] p = Sample3 -> [timestamp |-> 2, latitude |-> 11, longitude |-> 20,
                         elevation |-> 120]

\* The positions of the fully valid track points of a document, ascending.
ValidPositions(doc) == {i \in 1..Len(doc) : doc[i] \in ValidPoints}

\* The k-th smallest element of a finite set of integers.
RECURSIVE Nth(_, _)
Nth(S, k) ==
    LET least == CHOOSE x \in S : \A y \in S : x <= y
    IN  IF k = 1 THEN least ELSE Nth(S \ {least}, k - 1)

\* The samples of the valid track points, in document order.
ExpectedRows(doc) ==
    [k \in 1..Cardinality(ValidPositions(doc)) |->
        SampleRow(doc[Nth(ValidPositions(doc), k)])]

Least(S) == CHOOSE x \in S : \A y \in S : x <= y
Greatest(S) == CHOOSE x \in S : \A y \in S : y <= x
Values(rows, f) == {rows[i][f] : i \in 1..Len(rows)}

RECURSIVE SumUpTo(_, _, _)
SumUpTo(rows, f, n) == IF n = 0 THEN 0 ELSE rows[n][f] + SumUpTo(rows, f, n - 1)

StatsShown == out.op = "view_stats" /\ data.state = "frame"

----------------------------------------------------------------------------
(* Claims *)

\* C1: a track point of which a field cannot be obtained or converted, a
\* missing elevation element included, is skipped on its own: construction
\* from a well-formed document always completes, and the table holds the
\* fully valid track points (2 of 3 when one of three lacks its elevation).
C1_BadRecordNeverAborts ==
    (Terminal /\ arg.device = GARMIN_MONTANA_680 /\ fs.status = "ok")
        => /\ pc = "constructed"
           /\ data.state = "frame"
           /\ Len(data.rows) = Cardinality(ValidPositions(fs.points))

\* C2: from a well-formed document of N track points whose fields all
\* convert and M track points with a field that fails conversion, in any
\* interleaving, construction completes with M records reported and a table
\* of exactly the N valid records in document order; and whenever a table is
\* built at all it is that.
C2_ValidRowsInSourceOrder ==
    /\ (pc = "constructed" /\ device = GARMIN_MONTANA_680)
          => data = [state |-> "frame", rows |-> ExpectedRows(fs.points)]
    /\ (/\ Terminal /\ arg.device = GARMIN_MONTANA_680 /\ fs.status = "ok"
        /\ \A i \in 1..Len(fs.points) :
              fs.points[i] \in ValidPoints \cup UnconvertiblePoints)
          => /\ pc = "constructed"
             /\ Len(data.rows) = Cardinality(ValidPositions(fs.points))
             /\ skipped = Len(fs.points) - Len(data.rows)

\* C2 witness: a valid, a failing and a valid track point, the first later
\* in time than the last, and both kept in that order.
C2_Witness ==
    /\ pc = "constructed"
    /\ Len(fs.points) = 3
    /\ fs.points[2] \in UnconvertiblePoints
    /\ skipped = 1
    /\ Len(data.rows) = 2
    /\ data.rows[1].timestamp > data.rows[2].timestamp

\* C3: with a device that is no GpsDevice member the constructor raises
\* TypeError, the file is never opened and no attribute is ever set.
C3_TypeErrorBeforeFileAccess ==
    arg.device \in NotADevice
        => /\ opened = 0
           /\ name = Unset /\ survey_path = Unset /\ device = Unset
           /\ data = NoData
           /\ pc \in {"start", "raised"}
           /\ (pc = "raised" => error = "TypeError")

C3_Witness ==
    /\ arg.device \in NotADevice
    /\ pc = "raised"
    /\ error = "TypeError"
    /\ fs.status = "ok"

C5_EmptyDatasetReported ==
    (StatsShown /\ data.rows = << >>)
        => (out.count = 0 /\ error = "EmptyDataset")

\* C6: with a profile that has no extraction rule _read_gpx returns None
\* without raising and without opening the file, so construction completes
\* with self.data = None.
C6_NoRuleReturnsNone ==
    (arg.device \in profiles /\ arg.device # GARMIN_MONTANA_680)
        => /\ opened = 0
           /\ pc # "raised"
           /\ data \in {NoData, None}
           /\ (pc = "constructed" => data = None)
           /\ (out.op = "none" => error = "none")

C6_Witness ==
    /\ arg.device = OTHER_PROFILE
    /\ pc = "constructed"
    /\ data = None
    /\ fs.status = "missing"

\* C7: on a non-empty table the duration view_stats reports is the latest
\* timestamp minus the earliest one, whatever their order, and is never
\* negative.
C7_DurationIsLatestMinusEarliest ==
    (StatsShown /\ data.rows # << >>)
        => /\ ~out.time_to_survey.nan
           /\ out.time_to_survey.v =
                 Greatest(Values(data.rows, "timestamp"))
                    - Least(Values(data.rows, "timestamp"))
           /\ out.time_to_survey.v >= 0

\* C7 witness: three timestamps neither ascending nor descending.
C7_Witness ==
    /\ StatsShown
    /\ Len(data.rows) = 3
    /\ data.rows[1].timestamp > data.rows[3].timestamp
    /\ data.rows[3].timestamp > data.rows[2].timestamp
    /\ out.time_to_survey.v = 2

IsChart(o) == o.op \in {"bokeh", "matplotlib"}

\* C8: once constructed, no report changes name, survey_path, device or
\* data; the same report twice in a row gives the same result, and two
\* charts in a row are handed the same elevation series.
C8_ReadOnlyAfterConstruction ==
    [][pc = "constructed" =>
          /\ name' = name /\ survey_path' = survey_path
          /\ device' = device /\ data' = data
          /\ (out'.op = out.op => (out' = out /\ error' = error))
          /\ ((IsChart(out) /\ IsChart(out')) => out'.series = out.series)]_vars

\* C8 witness: a chart was handed a series that is not in time order.
C8_Witness ==
    /\ pc = "constructed"
    /\ out.op = "matplotlib"
    /\ Len(out.series) = 3
    /\ out.series[1][1] > out.series[2][1]
    /\ out.series = ElevationSeries(data)

\* C9: minimum, maximum and mean of the elevation are taken over exactly
\* the samples of the valid track points: least, greatest, and sum over
\* count; elevations 100, 150, 120 give 100, 150, range 50 and mean 370/3.
C9_ExtentOverRetainedSamples ==
    (StatsShown /\ data.rows # << >>)
        => LET kept == ExpectedRows(fs.points)
           IN  /\ out.count = Len(kept)
               /\ out.elevation.minimum = Num(Least(Values(kept, "elevation")))
               /\ out.elevation.maximum = Num(Greatest(Values(kept, "elevation")))
               /\ out.latitude.minimum = Num(Least(Values(kept, "latitude")))
               /\ out.latitude.maximum = Num(Greatest(Values(kept, "latitude")))
               /\ out.longitude.minimum = Num(Least(Values(kept, "longitude")))
               /\ out.longitude.maximum = Num(Greatest(Values(kept, "longitude")))
               /\ ~out.mean.nan
               /\ out.mean.num = SumUpTo(kept, "elevation", Len(kept))
               /\ out.mean.den = Len(kept)
               /\ (Column(data, "elevation") = <<100, 150, 120>>
                     => /\ out.elevation.minimum = Num(100)
                        /\ out.elevation.maximum = Num(150)
                        /\ out.elevation.range = Num(50)
                        /\ out.mean.num * 3 = 370 * out.mean.den)

C9_Witness ==
    /\ StatsShown
    /\ fs.points = <<Sample1, Sample2, Sample3>>
    /\ out.elevation.range = Num(50)
    /\ out.mean.num = 370 /\ out.mean.den = 3

\* C10: for elevation, latitude and longitude on a non-empty table the
\* range printed is the maximum printed minus the minimum printed, is not
\* negative, and is zero exactly when all values of the field are equal.
C10_RangeIsMaxMinusMin ==
    (StatsShown /\ data.rows # << >>)
        => \A f \in {"elevation", "latitude", "longitude"} :
              /\ ~out[f].range.nan /\ ~out[f].maximum.nan /\ ~out[f].minimum.nan
              /\ out[f].range.v = out[f].maximum.v - out[f].minimum.v
              /\ out[f].range.v >= 0
              /\ (out[f].range.v = 0 <=> Cardinality(Values(data.rows, f)) = 1)

\* C10 witness: equal latitudes and different longitudes.
C10_Witness ==
    /\ StatsShown
    /\ Len(data.rows) >= 2
    /\ out.latitude.range = Num(0)
    /\ out.longitude.range.v > 0

====
